---------------------------- MODULE Spec2Model ----------------------------
(***************************************************************************)
(* Model of kaggletools/titanic.py: TicketCounter, CabinCounter and        *)
(* FamilyPredictor.  A pandas frame is a function from the row index to a  *)
(* record of columns.  A float NaN is the empty tuple; a present value v   *)
(* of a column that may hold NaN is the one-element tuple <<v>>; a float   *)
(* rate is the pair <<n, d>> of the fraction n/d in lowest terms (the      *)
(* division of two small integers is correctly rounded, so two quotients   *)
(* are the same float exactly when the fractions are equal).               *)
(***************************************************************************)
EXTENDS Integers, Sequences, FiniteSets, TLC

VARIABLES obj, data, simplified, fill_if_not_any_survived, use_fare,
          filler, families, fid, exc, i, f, pc

vars == <<obj, data, simplified, fill_if_not_any_survived, use_fare,
          filler, families, fid, exc, i, f, pc>>

\* Number of rows of the input table.
NRows == 3

Rows == 1..NRows

(***************************** values ************************************)
NaN == <<>>

isna(x) == x = NaN

\* pandas / numpy ==: False whenever either side is NaN (also NaN == NaN).
PdEq(a, b) == ~isna(a) /\ ~isna(b) /\ a = b

\* Python values of different types never compare equal: a value carries
\* its type.
PyStr(s) == <<"str", s>>

PyInt(n) == <<"int", n>>

RECURSIVE GCD(_, _)
GCD(a, b) == IF b = 0 THEN a ELSE GCD(b, a % b)

Abs(n) == IF n < 0 THEN -n ELSE n

\* float(n) / float(d), d # 0.
Rat(n, d) ==
    LET g == GCD(Abs(n), Abs(d))
        sgn == IF d < 0 THEN -1 ELSE 1
    IN  <<(sgn * n) \div g, (sgn * d) \div g>>

One == <<1, 1>>

Zero == <<0, 1>>

Half == <<1, 2>>

\* x < y on floats; False when x is NaN.
RateLess(x, y) == ~isna(x) /\ x[1] * y[2] < y[1] * x[2]

SetMin(S) == CHOOSE x \in S : \A y \in S : x <= y

(******************** pandas reductions over Survived **********************)
\* Series.count() of (Survived == v) over the rows S.
CountSurvived(d, S, v) == Cardinality({j \in S : PdEq(d[j].Survived, <<v>>)})

\* Series.max(): NaN values skipped, NaN when none is left.
SurvivedMax(d, S) ==
    IF CountSurvived(d, S, 1) > 0 THEN <<1>>
    ELSE IF CountSurvived(d, S, 0) > 0 THEN <<0>>
    ELSE NaN

\* Series.min().
SurvivedMin(d, S) ==
    IF CountSurvived(d, S, 0) > 0 THEN <<0>>
    ELSE IF CountSurvived(d, S, 1) > 0 THEN <<1>>
    ELSE NaN

\* Series.mean(): the mean of the values that are not NaN, NaN when none.
SurvivedMean(d, S) ==
    LET s == CountSurvived(d, S, 1)
        n == s + CountSurvived(d, S, 0)
    IN  IF n = 0 THEN NaN ELSE Rat(s, n)

\* data.loc[data.Pclass == c, "Survived"].mean()
ClassMean(d, c) == SurvivedMean(d, {j \in Rows : d[j].Pclass = c})

(************************* TicketCounter *********************************)
\* 1 when row i's own Survived is known and equals v, else 0: the amount
\* taken off surv (v = 1) or died (v = 0) for the row itself.
\* Mutants: the own outcome is never taken off; it is taken off both counts.
OwnSurvivedMutant(d, r, v) == 0

OwnSurvivedBothMutant(d, r, v) == IF ~isna(d[r].Survived) THEN 1 ELSE 0

OwnSurvived(d, r, v) == IF PdEq(d[r].Survived, <<v>>) THEN 1 ELSE 0

\* The rows of the frame with data.Ticket == t.
TicketRows(d, t) == {j \in Rows : d[j].Ticket = t}

\* Mutant: the any-survivor rule whatever fill_if_not_any_survived is.
ThresholdMutant(d, others, any) ==
    IF PdEq(SurvivedMax(d, others), <<1>>) THEN One
    ELSE IF PdEq(SurvivedMin(d, others), <<0>>) THEN Zero
    ELSE NaN

\* The all/any rule of the simplified modes over the rows `others`
\* (fill_cabin_rates has the all rule only).
Threshold(d, others, any) ==
    IF any
    THEN IF PdEq(SurvivedMax(d, others), <<1>>) THEN One
         ELSE IF PdEq(SurvivedMin(d, others), <<0>>) THEN Zero
         ELSE NaN
    ELSE IF PdEq(SurvivedMin(d, others), <<1>>) THEN One
         ELSE IF PdEq(SurvivedMax(d, others), <<0>>) THEN Zero
         ELSE NaN

\* The leave-one-out counts s and d of the continuous ticket / cabin rate.
LooS(d, S, r) == CountSurvived(d, S, 1) - OwnSurvived(d, r, 1)

LooD(d, S, r) == CountSurvived(d, S, 0) - OwnSurvived(d, r, 0)

\* float(s) / float(s + d) when s + d is not zero, else the rate stays NaN.
LooRate(s, dd) == IF s + dd # 0 THEN Rat(s, s + dd) ELSE NaN

\* One iteration of the row loop of fill_ticket_rates: the value TicketRate
\* has for row r after it (NaN when nothing is assigned).
TicketRateRow(d, r, simp, any) ==
    LET ticket == d[r].Ticket
        pid    == d[r].PassengerId
        others == {j \in TicketRows(d, ticket) : d[j].PassengerId # pid}
    IN  IF simp
        THEN Threshold(d, others, any)
        ELSE LooRate(LooS(d, TicketRows(d, ticket), r),
                     LooD(d, TicketRows(d, ticket), r))

\* The fallback of fill_ticket_rates: fillna(0.5) when simplified, else
\* fillna with the mean of Survived of the row's Pclass.
TicketFill(d, r, rate, simp) ==
    IF ~isna(rate) THEN rate
    ELSE IF simp THEN Half
    ELSE ClassMean(d, d[r].Pclass)

fill_ticket_rates_data(d, simp, any) ==
    [r \in Rows |->
        [d[r] EXCEPT
            !.TicketCount = <<Cardinality(TicketRows(d, d[r].Ticket))>>,
            !.TicketRate  = TicketFill(d, r, TicketRateRow(d, r, simp, any), simp)]]

(************************** CabinCounter *********************************)
\* CabinCounter.__init__ with filler=None: 0.5 when simplified, else the
\* mean of Survived of the row's Pclass.
DefaultFiller(d, simp) ==
    [r \in Rows |-> IF simp THEN Half ELSE ClassMean(d, d[r].Pclass)]

CabinRows(d, c) == {j \in Rows : PdEq(d[j].Cabin, c)}

\* One iteration of the row loop of fill_cabin_rates.
CabinRateRow(d, r, simp) ==
    LET cabin  == d[r].Cabin
        pid    == d[r].PassengerId
        others == {j \in CabinRows(d, cabin) : d[j].PassengerId # pid}
    IN  IF isna(cabin) THEN NaN
        ELSE IF simp
        THEN Threshold(d, others, FALSE)
        ELSE LooRate(LooS(d, CabinRows(d, cabin), r),
                     LooD(d, CabinRows(d, cabin), r))

fill_cabin_rates_data(d, fl, simp) ==
    [r \in Rows |->
        LET rate == CabinRateRow(d, r, simp)
        IN  [d[r] EXCEPT
                !.CabinCount = IF isna(d[r].Cabin) THEN <<0>>
                               ELSE <<Cardinality(CabinRows(d, d[r].Cabin))>>,
                !.CabinRate  = IF isna(rate) THEN fl[r] ELSE rate]]

(************************ FamilyPredictor ********************************)
\* The value of _fill_family_ids' working state: the frame, the families
\* frame (row idx of it is families[idx + 1]), the use_fare counter fid and
\* the exception raised ("none" while running).
FamState(d, fams, n, e) == [data |-> d, families |-> fams, fid |-> n, exc |-> e]

\* _new_family: append the group of row r with Size 0 and Id = len(families).
new_family(fams, d, r) ==
    [families |-> Append(fams, [Pclass   |-> d[r].Pclass,
                                Embarked |-> d[r].Embarked,
                                Lastname |-> d[r].Lastname,
                                Size     |-> 0,
                                Id       |-> Len(fams)]),
     id |-> Len(fams)]

\* Mutant: the lookup of a group with the row's own Lastname is left out.
find_familyMutant(fams, d, r) == new_family(fams, d, r)

\* _find_family: the families frame after the call and the Id returned.
find_family(fams, d, r) ==
    LET sel   == SelectSeq(fams, LAMBDA g : g.Pclass = d[r].Pclass
                                            /\ g.Embarked = d[r].Embarked)
        exact == SelectSeq(sel, LAMBDA g : g.Lastname = d[r].Lastname)
    IN  IF Len(sel) = 0 THEN new_family(fams, d, r)
        ELSE IF Len(exact) # 0 THEN [families |-> fams, id |-> exact[1].Id]
        ELSE IF PdEq(d[r].SecondaryLastname, NaN) THEN new_family(fams, d, r)
        \* `secondary` is computed and never read: line 350 tests `exact`.
        ELSE IF Len(exact) # 0 THEN [families |-> fams, id |-> exact[1].Id]
        ELSE new_family(fams, d, r)

\* families.loc[families.Id == id, "Size"] += c
AddSize(fams, id, c) ==
    [k \in 1..Len(fams) |->
        IF PdEq(<<fams[k].Id>>, id) THEN [fams[k] EXCEPT !.Size = @ + c]
        ELSE fams[k]]

\* Line 375: a row with no kin aboard gets no family.
\* Mutant: only SibSp is looked at.
NoKinMutant(row) == row.SibSp = 0

NoKin(row) == row.SibSp = 0 /\ row.Parch = 0

\* One iteration of the row loop of step 1 (use_fare False).
FamilyRowStep(st, r) ==
    LET d == st.data
    IN  IF NoKin(d[r]) THEN st
        ELSE LET found == find_family(st.families, d, r)
                 d2    == [d EXCEPT ![r].Family = <<found.id>>]
             IN  [st EXCEPT !.data = d2,
                            !.families = AddSize(found.families, d2[r].Family, 1)]

\* One iteration of the row loop of the use_fare grouping.
FareRowStep(st, r) ==
    LET d   == st.data
        fa  == d[r].Fare
        l   == d[r].Lastname
    IN  IF ~isna(d[r].Family) THEN st
        ELSE [st EXCEPT
                !.data = [j \in Rows |->
                            IF PdEq(d[j].Fare, fa) /\ d[j].Lastname = l
                            THEN [d[j] EXCEPT !.Family = <<st.fid>>]
                            ELSE d[j]],
                !.fid = @ + 1]

\* The rows with data.Family == fam.
FamilyRows(d, fam) == {j \in Rows : PdEq(d[j].Family, fam)}

\* The positions, in index order, of the groups with Lastname == name.
LastnameMatches(fams, name) ==
    {k \in 1..Len(fams) : PdEq(<<fams[k].Lastname>>, name)}

\* Lines 394 and 396: the group with Id fam_id gains c, then the visited
\* group (index g) is marked absorbed.
\* Mutant: the visited group's Size is not reset.
AbsorbMutant(fams, g, fam_id, c) == AddSize(fams, fam_id, c)

Absorb(fams, g, fam_id, c) ==
    [AddSize(fams, fam_id, c) EXCEPT ![g + 1].Size = 0]

\* Lines 400-403: the sibling search is made for a lone member with
\* SibSp != 0 whose Sex equals the integer 1.
\* Mutant: Sex is compared with the string the column holds.
SiblingGateMutant(row) == row.SibSp # 0 /\ row.Sex = PyStr("female")

SiblingGate(row) == ~(row.SibSp = 0) /\ ~(row.Sex # PyInt(1))

\* One iteration of the loop over families.index of the merge pass, for the
\* group at index g (0-based).
MergeVisit(st, g) ==
    LET d       == st.data
        fams    == st.families
        fam     == <<fams[g + 1].Id>>
        members == FamilyRows(d, fam)
    IN  IF fams[g + 1].Size # 1 THEN st
        ELSE IF members = {} THEN [st EXCEPT !.exc = "IndexError"]
        ELSE
        LET first       == SetMin(members)
            pid         == d[first].PassengerId
            pclass      == d[first].Pclass
            emb         == d[first].Embarked
            second_name == d[first].SecondaryLastname
            matches     == LastnameMatches(fams, second_name)
            c           == Cardinality(members)
        IN  IF PdEq(second_name, NaN) THEN st
            ELSE
            LET fam_id == <<fams[SetMin(matches)].Id>>
                \* lines 391-397: the first match absorbs the group.
                st1 == IF matches = {} THEN st
                       ELSE [st EXCEPT
                              !.families = Absorb(fams, g, fam_id, c),
                              !.data = [j \in Rows |->
                                          IF j \in members
                                          THEN [d[j] EXCEPT !.Family = fam_id]
                                          ELSE d[j]]]
                who == CHOOSE j \in Rows : d[j].PassengerId = pid
                sisters == {j \in Rows :
                              /\ PdEq(d[j].SecondaryLastname, second_name)
                              /\ d[j].Sex = PyStr("female")
                              /\ d[j].Pclass = pclass
                              /\ d[j].Embarked = emb
                              /\ d[j].PassengerId # pid}
            IN  IF st1.families[g + 1].Size = 0 THEN st1
                ELSE IF ~SiblingGate(st1.data[who]) THEN st1
                ELSE IF sisters = {} THEN st1
                \* line 412 runs, line 413 names the undefined `data`.
                ELSE [st1 EXCEPT
                        !.families = AddSize(st1.families,
                                             st1.data[SetMin(sisters)].Family,
                                             Cardinality(FamilyRows(st1.data, fam))),
                        !.exc = "NameError"]

\* A loop `for x in 1..n` of steps Step(st, x), left at the first exception.
RECURSIVE RowLoop(_, _, _)
RowLoop(st, r, fare) ==
    IF r > NRows THEN st
    ELSE RowLoop(IF fare THEN FareRowStep(st, r) ELSE FamilyRowStep(st, r),
                 r + 1, fare)

RECURSIVE MergeLoop(_, _, _)
MergeLoop(st, g, n) ==
    IF g >= n \/ st.exc # "none" THEN st
    ELSE MergeLoop(MergeVisit(st, g), g + 1, n)

\* The merge pass: the loop over families.index as it is when the loop starts.
MergePass(st) == MergeLoop(st, 0, Len(st.families))

\* Lines 360-361: an empty families frame and a Family column of NaN.
FamilyIdsStart(d) ==
    FamState([r \in Rows |-> [d[r] EXCEPT !.Family = NaN]], <<>>, 0, "none")

\* _fill_family_ids as a whole.
fill_family_ids(d, fare) ==
    IF fare THEN RowLoop(FamilyIdsStart(d), 1, TRUE)
    ELSE MergePass(RowLoop(FamilyIdsStart(d), 1, FALSE))

\* One iteration of the row loop of fill_family_rates.
FamilyRateRow(d, r, simp, any) ==
    LET fam    == d[r].Family
        pid    == d[r].PassengerId
        others == {j \in FamilyRows(d, fam) : d[j].PassengerId # pid}
    IN  IF PdEq(fam, NaN) THEN NaN
        ELSE IF Cardinality(FamilyRows(d, fam)) = 1 THEN NaN
        ELSE IF simp THEN Threshold(d, others, any)
        ELSE SurvivedMean(d, others)

\* Lines 523-524: in the aggressive mode a rate below 0.75 is replaced by
\* the filler.
Refill(rate, fl, simp, any) ==
    IF simp /\ any /\ RateLess(rate, <<3, 4>>) THEN fl ELSE rate

\* Lines 501-524 on the frame d that _fill_family_ids left.
FamilyRates(d, fl, simp, any) ==
    [r \in Rows |->
        LET rate   == FamilyRateRow(d, r, simp, any)
            filled == IF isna(rate) THEN fl[r] ELSE rate
        IN  [d[r] EXCEPT !.FamilyRate = Refill(filled, fl[r], simp, any)]]

\* fill_family_rates as a whole: _fill_family_ids, then the rates; an
\* exception of _fill_family_ids leaves the frame as it was when raised.
fill_family_rates_state(d, fl, simp, fare, any) ==
    LET st == fill_family_ids(d, fare)
    IN  IF st.exc # "none" THEN st
        ELSE [st EXCEPT !.data = FamilyRates(st.data, fl, simp, any)]

(*************************** input tables ********************************)
SurvivedValues == {NaN, <<0>>, <<1>>}

PclassValues == {1, 2}

TicketValues == {"T1", "T2"}

CabinValues == {NaN, <<"C1">>, <<"C2">>}

LastnameValues == {"A", "B"}

SecondaryValues == {NaN, <<"A">>, <<"B">>}

SexValues == {PyStr("male"), PyStr("female")}

FareValues == {NaN, <<7>>}

\* (SibSp, Parch) of a row: alone, with a sibling/spouse, with a parent/child.
KinValues == {<<0, 0>>, <<1, 0>>, <<0, 1>>}

\* A row with PassengerId r; the columns the classes add are not there yet.
DefaultRow(r) ==
    [PassengerId |-> r, Survived |-> NaN, Pclass |-> 1, Ticket |-> "T1",
     Cabin |-> NaN, Embarked |-> "S", Lastname |-> "A",
     SecondaryLastname |-> NaN, SibSp |-> 0, Parch |-> 0,
     Sex |-> PyStr("male"), Fare |-> <<7>>,
     TicketCount |-> NaN, TicketRate |-> NaN, CabinCount |-> NaN,
     CabinRate |-> NaN, Family |-> NaN, FamilyRate |-> NaN]

Table(in) == [r \in Rows |-> in[r] @@ DefaultRow(r)]

\* The columns each class reads vary; the others keep the default.
TicketInputs == [Survived : SurvivedValues, Pclass : PclassValues,
                 Ticket : TicketValues]

CabinInputs == [Survived : SurvivedValues, Pclass : PclassValues,
                Cabin : CabinValues]

\* Lastname, SecondaryLastname and SibSp of a row: alone, or with kin under
\* either surname, or with kin and the other surname in brackets.
NameValues ==
    {[Lastname |-> "A", SecondaryLastname |-> NaN, SibSp |-> 0],
     [Lastname |-> "A", SecondaryLastname |-> NaN, SibSp |-> 1],
     [Lastname |-> "B", SecondaryLastname |-> NaN, SibSp |-> 1],
     [Lastname |-> "B", SecondaryLastname |-> <<"A">>, SibSp |-> 1]}

FamilyRateInputs ==
    {in @@ nm : in \in [Survived : SurvivedValues], nm \in NameValues}

FareRateInputs ==
    [Survived : SurvivedValues, Lastname : LastnameValues, Fare : FareValues]

KinRow(k) == [SibSp |-> k[1], Parch |-> k[2]]

FamilyIdInputs ==
    {in @@ KinRow(k) :
        in \in [Pclass : PclassValues, Lastname : LastnameValues,
                SecondaryLastname : SecondaryValues, Sex : SexValues],
        k \in KinValues}

\* Two fares and a missing one, so that rows can differ in Fare alone.
FareIdValues == FareValues \cup {<<8>>}

FareIdInputs ==
    {in @@ KinRow(k) :
        in \in [Lastname : LastnameValues, Fare : FareIdValues],
        k \in {<<0, 0>>, <<1, 0>>}}

(****************************** states ***********************************)
\* The state after the constructor of class `kind` returns.
Constructed(kind, d, simp, fare, any) ==
    /\ obj = kind
    /\ data = d
    /\ simplified = simp
    /\ use_fare = fare
    /\ fill_if_not_any_survived = any
    /\ filler = IF kind = "TicketCounter" THEN [r \in Rows |-> NaN]
                ELSE DefaultFiller(d, simp)
    /\ families = <<>>
    /\ fid = 0
    /\ exc = "none"
    /\ i = 0
    /\ f = 0
    /\ pc = "constructed"

Init ==
    \E simp \in BOOLEAN :
        \/ \E any \in BOOLEAN, in \in [Rows -> TicketInputs] :
               /\ any => simp
               /\ Constructed("TicketCounter", Table(in), simp, FALSE, any)
        \/ \E in \in [Rows -> CabinInputs] :
               Constructed("CabinCounter", Table(in), simp, FALSE, FALSE)
        \/ \E any \in BOOLEAN, in \in [Rows -> FamilyRateInputs] :
               /\ any => simp
               /\ Constructed("FamilyPredictor", Table(in), simp, FALSE, any)
        \/ \E any \in BOOLEAN, in \in [Rows -> FareRateInputs] :
               /\ any => simp
               /\ Constructed("FamilyPredictor", Table(in), simp, TRUE, any)

fill_ticket_rates ==
    /\ pc = "constructed"
    /\ obj = "TicketCounter"
    /\ data' = fill_ticket_rates_data(data, simplified, fill_if_not_any_survived)
    /\ pc' = "done"
    /\ UNCHANGED <<obj, simplified, fill_if_not_any_survived, use_fare, filler,
                   families, fid, exc, i, f>>

fill_cabin_rates ==
    /\ pc = "constructed"
    /\ obj = "CabinCounter"
    /\ data' = fill_cabin_rates_data(data, filler, simplified)
    /\ pc' = "done"
    /\ UNCHANGED <<obj, simplified, fill_if_not_any_survived, use_fare, filler,
                   families, fid, exc, i, f>>

fill_family_rates ==
    /\ pc = "constructed"
    /\ obj = "FamilyPredictor"
    /\ LET st == fill_family_rates_state(data, filler, simplified, use_fare,
                                         fill_if_not_any_survived)
       IN  /\ data' = st.data
           /\ families' = st.families
           /\ fid' = st.fid
           /\ exc' = st.exc
           /\ pc' = IF st.exc # "none" THEN "raised" ELSE "done"
    /\ UNCHANGED <<obj, simplified, fill_if_not_any_survived, use_fare, filler,
                   i, f>>

Next == fill_ticket_rates \/ fill_cabin_rates \/ fill_family_rates

Spec == Init /\ [][Next]_vars

(**************** _fill_family_ids, one loop iteration at a time ***********)
InitFamily ==
    \/ \E in \in [Rows -> FamilyIdInputs] :
           Constructed("FamilyPredictor", Table(in), FALSE, FALSE, FALSE)
    \/ \E in \in [Rows -> FareIdInputs] :
           Constructed("FamilyPredictor", Table(in), FALSE, TRUE, FALSE)

Current == FamState(data, families, fid, exc)

\* Lines 360-361.
fill_family_ids_start ==
    /\ pc = "constructed"
    /\ obj = "FamilyPredictor"
    /\ data' = FamilyIdsStart(data).data
    /\ families' = <<>>
    /\ fid' = 0
    /\ i' = 1
    /\ pc' = "rows"
    /\ UNCHANGED <<obj, simplified, fill_if_not_any_survived, use_fare, filler,
                   exc, f>>

\* Lines 365-371, one row.
fare_row ==
    /\ pc = "rows"
    /\ use_fare
    /\ LET st == FareRowStep(Current, i)
       IN  /\ data' = st.data
           /\ fid' = st.fid
    /\ i' = i + 1
    /\ pc' = IF i = NRows THEN "ids_done" ELSE "rows"
    /\ UNCHANGED <<obj, simplified, fill_if_not_any_survived, use_fare, filler,
                   families, exc, f>>

\* Lines 373-379, one row.
family_row ==
    /\ pc = "rows"
    /\ ~use_fare
    /\ LET st == FamilyRowStep(Current, i)
       IN  /\ data' = st.data
           /\ families' = st.families
           /\ pc' = IF i < NRows THEN "rows"
                    ELSE IF Len(st.families) = 0 THEN "ids_done"
                    ELSE "merge"
    /\ i' = i + 1
    /\ f' = 0
    /\ UNCHANGED <<obj, simplified, fill_if_not_any_survived, use_fare, filler,
                   fid, exc>>

\* Lines 380-414, one group.
merge_visit ==
    /\ pc = "merge"
    /\ LET st == MergeVisit(Current, f)
       IN  /\ data' = st.data
           /\ families' = st.families
           /\ exc' = st.exc
           /\ pc' = IF st.exc # "none" THEN "raised"
                    ELSE IF f + 1 = Len(families) THEN "ids_done"
                    ELSE "merge"
    /\ f' = f + 1
    /\ UNCHANGED <<obj, simplified, fill_if_not_any_survived, use_fare, filler,
                   fid, i>>

NextFamily == fill_family_ids_start \/ fare_row \/ family_row \/ merge_visit

SpecFamily == InitFamily /\ [][NextFamily]_vars

(***************************** properties *********************************)
\* The rate column the constructed class fills.
RateOf(d, r) ==
    CASE obj = "TicketCounter" -> d[r].TicketRate
      [] obj = "CabinCounter"  -> d[r].CabinRate
      [] OTHER                 -> d[r].FamilyRate

\* The rows sharing row r's key: its Ticket, its Cabin when it has one, its
\* Family when it has one.
Group(r) ==
    CASE obj = "TicketCounter" -> {j \in Rows : data[j].Ticket = data[r].Ticket}
      [] obj = "CabinCounter"  ->
            {j \in Rows : data[r].Cabin # NaN /\ data[j].Cabin = data[r].Cabin}
      [] OTHER ->
            {j \in Rows : data[r].Family # NaN /\ data[j].Family = data[r].Family}

\* The other rows of r's group whose outcome is known.
KnownOthers(r) == {j \in Group(r) \ {r} : data[j].Survived # NaN}

Survivors(S) == {j \in S : data[j].Survived = <<1>>}

\* C1: in continuous mode, a row that shares its key with another row of
\* known outcome gets the mean of Survived over those other rows, its own
\* outcome not counted.
C1_LeaveOneOutMean ==
    (pc = "done" /\ ~simplified) =>
        \A r \in Rows :
            KnownOthers(r) # {} =>
                LET n == Cardinality(Survivors(KnownOthers(r)))
                    m == Cardinality(KnownOthers(r))
                IN  /\ ~isna(RateOf(data, r))
                    /\ RateOf(data, r)[1] * m = n * RateOf(data, r)[2]

\* One ticket shared by rows with Survived = [1, 0, missing]: rates 0, 1, 0.5.
C1_Witness ==
    /\ pc = "done" /\ obj = "TicketCounter" /\ ~simplified
    /\ \A r \in Rows : data[r].Ticket = "T1"
    /\ data[1].Survived = <<1>> /\ data[2].Survived = <<0>>
    /\ data[3].Survived = NaN
    /\ data[1].TicketRate = Zero /\ data[2].TicketRate = One
    /\ data[3].TicketRate = Half

\* The frame as the caller passes it: the columns the classes add dropped.
Passed ==
    [j \in Rows |-> [data[j] EXCEPT !.Family = NaN, !.FamilyRate = NaN,
                                    !.TicketRate = NaN, !.TicketCount = NaN,
                                    !.CabinRate = NaN, !.CabinCount = NaN]]

\* That frame with row r's own Survived set to v.
WithSurvived(r, v) == [Passed EXCEPT ![r].Survived = v]

\* The rate row r gets when the same class, built with the same arguments,
\* runs on the frame d.
RerunRate(d, r) ==
    CASE obj = "TicketCounter" ->
            fill_ticket_rates_data(d, simplified,
                                   fill_if_not_any_survived)[r].TicketRate
      [] obj = "CabinCounter" ->
            fill_cabin_rates_data(d, DefaultFiller(d, simplified),
                                  simplified)[r].CabinRate
      [] OTHER ->
            fill_family_rates_state(d, DefaultFiller(d, simplified), simplified,
                                    use_fare, fill_if_not_any_survived
                                   ).data[r].FamilyRate

\* C2: a row's final rate is the same whatever the row's own Survived is
\* (0, 1 or missing), the fallback fill included.
C2_OwnOutcomeNoInfluence ==
    pc = "done" =>
        \A r \in Rows : \A v \in SurvivedValues :
            RerunRate(WithSurvived(r, v), r) = RateOf(data, r)

\* C4: after fill_ticket_rates, fill_cabin_rates or fill_family_rates no row
\* has a NaN rate.
C4_FallbackComplete ==
    pc = "done" => \A r \in Rows : ~isna(RateOf(data, r))

\* C8: in the conservative thresholded mode the final rate is 1.0 when the
\* other rows of the group with known outcome all survived, 0.0 when they
\* all died, and 0.5 when they are mixed or there is none.
C8_Conservative ==
    (pc = "done" /\ simplified /\ ~fill_if_not_any_survived) =>
        \A r \in Rows :
            LET known == KnownOthers(r)
                alive == Survivors(known)
            IN  RateOf(data, r) =
                    IF known # {} /\ alive = known THEN One
                    ELSE IF known # {} /\ alive = {} THEN Zero
                    ELSE Half

\* Three rows on one ticket: the row whose two companions survived gets 1.0,
\* a row whose companions are one survivor and one victim gets 0.5.
C8_Witness ==
    /\ pc = "done" /\ obj = "TicketCounter"
    /\ simplified /\ ~fill_if_not_any_survived
    /\ \A r \in Rows : data[r].Ticket = "T1"
    /\ data[1].Survived = <<0>> /\ data[2].Survived = <<1>>
    /\ data[3].Survived = <<1>>
    /\ data[1].TicketRate = One /\ data[2].TicketRate = Half

\* C9: in the aggressive mode a row of a family of several gets FamilyRate 1
\* when another member is known to have survived, and 0 when none is known
\* to have survived and one is known to have died.
C9_AggressiveFamily ==
    (pc = "done" /\ obj = "FamilyPredictor" /\ simplified
        /\ fill_if_not_any_survived) =>
        \A r \in Rows :
            Cardinality(Group(r)) > 1 =>
                /\ Survivors(KnownOthers(r)) # {} => data[r].FamilyRate = One
                /\ (Survivors(KnownOthers(r)) = {} /\ KnownOthers(r) # {})
                       => data[r].FamilyRate = Zero

InUnit(x) == x[2] > 0 /\ 0 <= x[1] /\ x[1] <= x[2]

\* C10: every rate that is set after the fill lies in [0, 1], and the
\* leave-one-out counts s and d of the continuous ticket and cabin rates are
\* never negative.
C10_Range ==
    /\ pc = "done" =>
           \A r \in Rows : isna(RateOf(data, r)) \/ InUnit(RateOf(data, r))
    /\ obj = "TicketCounter" =>
           \A r \in Rows :
               /\ LooS(data, TicketRows(data, data[r].Ticket), r) >= 0
               /\ LooD(data, TicketRows(data, data[r].Ticket), r) >= 0
    /\ obj = "CabinCounter" =>
           \A r \in Rows :
               ~isna(data[r].Cabin) =>
                   /\ LooS(data, CabinRows(data, data[r].Cabin), r) >= 0
                   /\ LooD(data, CabinRows(data, data[r].Cabin), r) >= 0

\* A row alone on its ticket whose own outcome is known: s and d are 0 after
\* its own outcome is taken off, and the class mean fills the rate.
C10_Witness ==
    /\ pc = "done" /\ obj = "TicketCounter" /\ ~simplified
    /\ data[1].Ticket = "T2" /\ data[2].Ticket = "T1" /\ data[3].Ticket = "T1"
    /\ data[1].Survived = <<1>>
    /\ LooS(data, TicketRows(data, "T2"), 1) = 0
    /\ \A r \in Rows : data[r].Pclass = 1
    /\ data[2].Survived = <<0>> /\ data[3].Survived = <<0>>
    /\ data[1].TicketRate = <<1, 3>>

(******************** properties of _fill_family_ids **********************)
FamilyIds == {families[k].Id : k \in 1..Len(families)}

\* C3: when _fill_family_ids (use_fare False) has finished, every row with
\* SibSp + Parch > 0 has the Id of an existing group as its Family, and every
\* row with SibSp + Parch = 0 has no Family.
C3_PartitionTotal ==
    (pc = "ids_done" /\ ~use_fare) =>
        \A r \in Rows :
            IF data[r].SibSp + data[r].Parch > 0
            THEN ~isna(data[r].Family) /\ data[r].Family[1] \in FamilyIds
            ELSE isna(data[r].Family)

\* A finished run with a row that has a parent/child only, a row alone, and
\* a singleton that the merge pass moved into another group.
C3_Witness ==
    /\ pc = "ids_done" /\ ~use_fare
    /\ \E r \in Rows : data[r].SibSp = 0 /\ data[r].Parch = 1
                       /\ ~isna(data[r].Family)
    /\ \E r \in Rows : data[r].SibSp + data[r].Parch = 0
    /\ \E r \in Rows : /\ ~isna(data[r].Family)
                       /\ families[data[r].Family[1] + 1].Lastname
                              # data[r].Lastname

\* C5: when _fill_family_ids (use_fare False) has finished, every group's
\* Size is the number of rows whose Family is the group's Id.
C5_SizeConsistent ==
    (pc = "ids_done" /\ ~use_fare) =>
        \A k \in 1..Len(families) :
            families[k].Size
                = Cardinality(FamilyRows(data, <<families[k].Id>>))

\* C6: a second run of the merge pass on the state the first run left
\* changes no row's Family.
C6_MergeIdempotent ==
    (pc = "ids_done" /\ ~use_fare) =>
        LET again == MergePass(Current)
        IN  /\ again.exc = "none"
            /\ \A r \in Rows : again.data[r].Family = data[r].Family

\* A finished run in which a group of Size 1 holds a row that was moved
\* into it after the group itself had been absorbed: the second run visits
\* the group and finds a match for that row.
C6_Witness ==
    /\ pc = "ids_done" /\ ~use_fare
    /\ \E k \in 1..Len(families) :
           /\ families[k].Size = 1
           /\ \E r \in FamilyRows(data, <<families[k].Id>>) :
                  /\ data[r].Lastname # families[k].Lastname
                  /\ data[r].SecondaryLastname = <<families[k].Lastname>>
           /\ \E r \in Rows :
                  /\ data[r].Lastname = families[k].Lastname
                  /\ data[r].Pclass = families[k].Pclass
                  /\ ~isna(data[r].Family)
                  /\ data[r].Family # <<families[k].Id>>

\* C7: a visit of the merge pass to a group of Size 1 whose lone member's
\* SecondaryLastname is the Lastname of some group moves the member to the
\* first such group, raises that group's Size by the singleton's row count,
\* and leaves the visited group with Size 0 and no member rows.
C7_SingletonMerge ==
    [][(/\ pc = "merge"
        /\ families[f + 1].Size = 1)
       => \A m \in FamilyRows(data, <<families[f + 1].Id>>) :
              LET matches == LastnameMatches(families, data[m].SecondaryLastname)
                  t == SetMin(matches)
              IN  matches # {} =>
                      /\ data'[m].Family = <<families[t].Id>>
                      /\ families'[t].Size = families[t].Size + 1
                      /\ families'[f + 1].Size = 0
                      /\ FamilyRows(data', <<families[f + 1].Id>>) = {}]_vars

\* The positions of the groups with row r's Pclass and Embarked.
SameClassPort(r) ==
    {k \in 1..Len(families) : /\ families[k].Pclass = data[r].Pclass
                              /\ families[k].Embarked = data[r].Embarked}

\* C11: when step 1 processes an eligible row for which groups of its Pclass
\* and Embarked exist, none of them has the row's Lastname and one of them
\* has the row's SecondaryLastname as Lastname, the row joins the first such
\* group and no group is created.
C11_SecondaryMatch ==
    [][(/\ pc = "rows" /\ ~use_fare
        /\ ~(data[i].SibSp = 0 /\ data[i].Parch = 0))
       => LET own == {k \in SameClassPort(i) :
                          families[k].Lastname = data[i].Lastname}
              sec == {k \in SameClassPort(i) :
                          <<families[k].Lastname>> = data[i].SecondaryLastname}
          IN  (own = {} /\ sec # {}) =>
                  /\ Len(families') = Len(families)
                  /\ data'[i].Family = <<families[SetMin(sec)].Id>>]_vars

\* The (Fare, Lastname) pair of row r.
FarePair(r) == <<data[r].Fare, data[r].Lastname>>

\* The first row holding the pair of row r.
FirstOf(r) == SetMin({j \in Rows : FarePair(j) = FarePair(r)})

\* The number of pairs that first appear before the pair of row r does.
PairRank(r) == Cardinality({FarePair(j) : j \in 1..(FirstOf(r) - 1)})

\* C12: with use_fare, after _fill_family_ids every row has a Family id, a
\* missing Fare included; two rows have the same id exactly when they have
\* the same (Fare, Lastname) pair; and the ids are 0, 1, 2, ... in the order
\* in which the pairs first appear, none skipped.
C12_FareGrouping ==
    (pc = "ids_done" /\ use_fare) =>
        /\ \A r \in Rows : ~isna(data[r].Family)
        /\ \A r, s \in Rows :
               (data[r].Family = data[s].Family) <=> (FarePair(r) = FarePair(s))
        /\ \A r \in Rows : data[r].Family = <<PairRank(r)>>

\* The same statement for tables in which no Fare is missing.
C12_KnownFares ==
    (pc = "ids_done" /\ use_fare /\ \A r \in Rows : ~isna(data[r].Fare)) =>
        /\ \A r \in Rows : ~isna(data[r].Family)
        /\ \A r, s \in Rows :
               (data[r].Family = data[s].Family) <=> (FarePair(r) = FarePair(s))
        /\ \A r \in Rows : data[r].Family = <<PairRank(r)>>

\* The rows the sibling search of lines 404-408 would select for row m.
Sisters(m) ==
    {j \in Rows : /\ ~isna(data[m].SecondaryLastname)
                  /\ data[j].SecondaryLastname = data[m].SecondaryLastname
                  /\ data[j].Sex = PyStr("female")
                  /\ data[j].Pclass = data[m].Pclass
                  /\ data[j].Embarked = data[m].Embarked
                  /\ data[j].PassengerId # data[m].PassengerId}

\* C13: with Sex held as the strings 'male' and 'female', no visit of the
\* merge pass reaches the sibling fallback: a visit raises nothing (line 413
\* is not executed), and it changes Family ids and group Sizes only by
\* moving a group of Size 1 into the first group named by its member's
\* SecondaryLastname; every other visit changes nothing.
C13_SiblingGateInert ==
    [][pc = "merge" =>
         LET members == FamilyRows(data, <<families[f + 1].Id>>)
             matches == IF members = {} THEN {}
                        ELSE LastnameMatches(families,
                                 data[SetMin(members)].SecondaryLastname)
         IN  /\ exc' = "none"
             /\ IF families[f + 1].Size = 1 /\ matches # {}
                THEN LET fam_id == <<families[SetMin(matches)].Id>>
                     IN  /\ \A j \in Rows :
                                data'[j].Family = IF j \in members THEN fam_id
                                                  ELSE data[j].Family
                         /\ families' = Absorb(families, f, fam_id,
                                               Cardinality(members))
                ELSE /\ data' = data
                     /\ families' = families]_vars

\* The visit just made was to a group of Size 1 whose lone member is a
\* woman with SibSp > 0, no group carries her SecondaryLastname, and the
\* table holds a row the sibling search would select: the group is left as
\* it was.
C13_Witness ==
    /\ pc \in {"merge", "ids_done"} /\ ~use_fare /\ f >= 1
    /\ families[f].Size = 1
    /\ \E m \in FamilyRows(data, <<families[f].Id>>) :
           /\ data[m].SibSp # 0
           /\ data[m].Sex = PyStr("female")
           /\ LastnameMatches(families, data[m].SecondaryLastname) = {}
           /\ Sisters(m) # {}

\* The (Pclass, Embarked, Lastname) triple of a group or of a row.
Key(x) == <<x.Pclass, x.Embarked, x.Lastname>>

\* C14: during step 1 and afterwards no two groups have the same
\* (Pclass, Embarked, Lastname) triple and the group Ids are 0..n-1 in
\* creation order; so at the end of step 1, before the merge pass, two
\* eligible rows have the same Family id exactly when they agree on Pclass,
\* Embarked and Lastname.
C14_GroupKeyUnique ==
    ~use_fare =>
        /\ \A k, l \in 1..Len(families) :
               Key(families[k]) = Key(families[l]) => k = l
        /\ \A k \in 1..Len(families) : families[k].Id = k - 1
        /\ (pc = "merge" /\ f = 0) =>
               \A r, s \in Rows :
                   (~(data[r].SibSp = 0 /\ data[r].Parch = 0)
                    /\ ~(data[s].SibSp = 0 /\ data[s].Parch = 0))
                   => /\ ~isna(data[r].Family)
                      /\ (data[r].Family = data[s].Family)
                             <=> (Key(data[r]) = Key(data[s]))

\* Step 1 has just ended with two groups of the same Lastname in different
\* classes, one of them holding two rows.
C14_Witness ==
    /\ pc = "merge" /\ f = 0 /\ ~use_fare
    /\ \E r, s, t \in Rows :
           /\ r # s
           /\ ~isna(data[r].Family) /\ data[r].Family = data[s].Family
           /\ ~isna(data[t].Family) /\ data[t].Family # data[r].Family
           /\ data[t].Lastname = data[r].Lastname
           /\ data[t].Pclass # data[r].Pclass

=============================================================================
